---- MODULE Spec2Model ----
(***************************************************************************)
(* A model of the fdtd package: the Particle wave packet (particle.py),    *)
(* the potential shapes (potentials.py), the Simulation engine and its     *)
(* snapshot generator (simulation.py) as driven by AnimateSim              *)
(* (animation.py).                                                         *)
(*                                                                         *)
(* Floating point values are modelled by exact rationals <<n, d>> in       *)
(* lowest terms.  The division by nrm = sqrt(P) keeps the wavefunction in  *)
(* units of 1/sqrt(den): the generator carries den (and pden for psi_p)    *)
(* beside the rational arrays.  Arrays are functions over 0..n-1 so that   *)
(* the indices are those of the source.                                    *)
(***************************************************************************)
EXTENDS Integers, Sequences, FiniteSets, TLC

VARIABLES particle, sim, gen, prev, snaps, call

vars == <<particle, sim, gen, prev, snaps, call>>

(***************************************************************************)
(* Bounds of the model.                                                    *)
(***************************************************************************)
MaxN == 4
MaxT == 3
MaxDeltaT == 2
ExpBits == 3

(***************************************************************************)
(* Exact rational arithmetic standing for the float64 arithmetic of numpy. *)
(***************************************************************************)
Abs(x) == IF x < 0 THEN -x ELSE x

RECURSIVE GCD(_, _)
GCD(a, b) == IF b = 0 THEN a ELSE GCD(b, a % b)

Rat(n, d) ==
    LET g == GCD(Abs(n), Abs(d))
        s == IF d < 0 THEN -1 ELSE 1
    IN  <<s * (n \div g), s * (d \div g)>>

RInt(n) == <<n, 1>>
RZero == RInt(0)
ROne == RInt(1)

RAdd(a, b) ==
    LET g == GCD(a[2], b[2])
    IN  Rat(a[1] * (b[2] \div g) + b[1] * (a[2] \div g), (a[2] \div g) * b[2])

RNeg(a) == <<-a[1], a[2]>>
RSub(a, b) == RAdd(a, RNeg(b))
RMul(a, b) ==
    LET g1 == GCD(Abs(a[1]), b[2])
        g2 == GCD(Abs(b[1]), a[2])
        h1 == IF g1 = 0 THEN 1 ELSE g1
        h2 == IF g2 = 0 THEN 1 ELSE g2
    IN  Rat((a[1] \div h1) * (b[1] \div h2), (a[2] \div h2) * (b[2] \div h1))
RDiv(a, b) == RMul(a, IF b[1] < 0 THEN <<-b[2], -b[1]>> ELSE <<b[2], b[1]>>)
RAbs(a) == <<Abs(a[1]), a[2]>>
RGt(a, b) == a[1] * b[2] > b[1] * a[2]

(***************************************************************************)
(* numpy arrays: functions over 0..n-1.                                    *)
(***************************************************************************)
Len0(a) == Cardinality(DOMAIN a)

NpZeros(n) == [k \in 0..(n - 1) |-> RZero]

\* np.arange(start, stop, step) for integers, step >= 1
NpArange(start, stop, step) ==
    LET n == IF stop > start THEN (stop - start + step - 1) \div step ELSE 0
    IN  [k \in 0..(n - 1) |-> start + k * step]

\* a[idx] for an index array idx
Take(a, idx) == [j \in DOMAIN idx |-> a[idx[j]]]

\* a[idx] = vals for an index array idx
Put(a, idx, vals) ==
    [k \in DOMAIN a |->
        IF \E j \in DOMAIN idx : idx[j] = k
        THEN vals[CHOOSE j \in DOMAIN idx : idx[j] = k]
        ELSE a[k]]

\* elementwise operations; an operand of length 1 is broadcast
At(a, k) == IF Len0(a) = 1 THEN a[0] ELSE a[k]
Shape(a, b) == IF Len0(a) >= Len0(b) THEN DOMAIN a ELSE DOMAIN b
ArrAdd(a, b) == [k \in Shape(a, b) |-> RAdd(At(a, k), At(b, k))]
ArrSub(a, b) == [k \in Shape(a, b) |-> RSub(At(a, k), At(b, k))]
ArrMul(a, b) == [k \in Shape(a, b) |-> RMul(At(a, k), At(b, k))]
ArrScale(c, a) == [k \in DOMAIN a |-> RMul(c, a[k])]

RECURSIVE SumUpTo(_, _)
SumUpTo(a, n) == IF n = 0 THEN RZero ELSE RAdd(SumUpTo(a, n - 1), a[n - 1])
NpSum(a) == SumUpTo(a, Len0(a))

RECURSIVE MaxUpTo(_, _)
MaxUpTo(a, n) ==
    IF n = 1 THEN a[0]
    ELSE LET r == MaxUpTo(a, n - 1) IN IF RGt(a[n - 1], r) THEN a[n - 1] ELSE r
NpMax(a) == MaxUpTo(a, Len0(a))

RECURSIVE MinIntUpTo(_, _)
MinIntUpTo(a, n) ==
    IF n = 1 THEN a[0]
    ELSE LET r == MinIntUpTo(a, n - 1) IN IF a[n - 1] < r THEN a[n - 1] ELSE r
MinInt(a) == MinIntUpTo(a, Len0(a))
MaxInt(a) == -MinInt([k \in DOMAIN a |-> -a[k]])

\* optional arguments: None is the empty tuple, a given value v is <<v>>
None == <<>>
Some(v) == <<v>>
IsNone(o) == o = <<>>

(***************************************************************************)
(* potentials.py: the potential shapes, evaluated on an array x of integer *)
(* coordinates.  Each evaluation returns the array and the warnings it     *)
(* issued, or the exception it raised.                                     *)
(***************************************************************************)
Returned(res, warned) == [exc |-> "none", res |-> res, warned |-> warned]
Raised(e) == [exc |-> e, res |-> <<>>, warned |-> FALSE]

NullPotential == [kind |-> "Null", A |-> 0]

DefaultTolerance == Rat(1, 10000)

PointPotential(A, pos, tolerance) ==
    [kind |-> "Point", A |-> A,
     pos |-> IF IsNone(pos) THEN 0 ELSE pos[1],
     epsilon |-> IF IsNone(tolerance) THEN DefaultTolerance ELSE tolerance[1]]

BarrierPotential(A, width, pos) ==
    [kind |-> "Barrier", A |-> A, width |-> width,
     pos |-> IF IsNone(pos) THEN 0 ELSE pos[1]]

StepPotential(A, pos) ==
    [kind |-> "Step", A |-> A, pos |-> IF IsNone(pos) THEN 0 ELSE pos[1]]

NullFarr(pot, x) == Returned(NpZeros(Len0(x)), FALSE)

\* the tolerance test of PointPotential._farr on the closest coordinate c
OutOfTolerance(pot, c) ==
    RGt(RAbs(RInt(c)), RAbs(RAdd(RInt(pot.pos), pot.epsilon)))

PointFarr(pot, x) ==
    LET res == NpZeros(Len0(x)) IN
    IF Len0(x) = 0 THEN Raised("ValueError")
    ELSE IF MinInt(x) > pot.pos \/ MaxInt(x) < pot.pos THEN Returned(res, TRUE)
    ELSE
      LET shiftx == [k \in DOMAIN x |-> Abs(x[k] - pot.pos)]
          m == MinInt(shiftx)
          idx == CHOOSE k \in DOMAIN x :
                    shiftx[k] = m /\ \A j \in DOMAIN x : shiftx[j] = m => k <= j
      IN  IF OutOfTolerance(pot, x[idx]) THEN Returned(res, TRUE)
          ELSE Returned([res EXCEPT ![idx] = RInt(pot.A)], FALSE)

BarrierFarr(pot, x) ==
    Returned([k \in DOMAIN x |->
                IF \/ (x[k] >= pot.pos /\ x[k] <= pot.pos + pot.width)
                   \/ (x[k] < pot.pos /\ x[k] >= pot.pos - pot.width)
                THEN RInt(pot.A) ELSE RZero], FALSE)

StepFarr(pot, x) ==
    Returned([k \in DOMAIN x |-> IF x[k] >= pot.pos THEN RInt(pot.A) ELSE RZero],
             FALSE)

\* Potential.f on an array (hasattr(x, '__iter__') holds)
PotentialF(pot, x) ==
    CASE pot.kind = "Null" -> NullFarr(pot, x)
      [] pot.kind = "Point" -> PointFarr(pot, x)
      [] pot.kind = "Barrier" -> BarrierFarr(pot, x)
      [] pot.kind = "Step" -> StepFarr(pot, x)

(***************************************************************************)
(* particle.py: the Gaussian wave packet.  k0 is held in units of pi/20.   *)
(* np.exp is tabulated to ExpBits binary digits: exp(-u) is 1 at u = 0,    *)
(* 2^-ceil(u) otherwise, and underflows to 0 below 2^-ExpBits (float64     *)
(* does below exp(-745)).  np.cos and np.sin are exact on the quarter      *)
(* turns, the only angles the wavenumbers of K0Set produce.                *)
(***************************************************************************)
hbar == 1
PiOver20 == 1

RECURSIVE Pow2(_)
Pow2(e) == IF e = 0 THEN 1 ELSE 2 * Pow2(e - 1)

NpExpNeg(u) ==
    LET e == (u[1] + u[2] - 1) \div u[2]
    IN  IF e > ExpBits THEN RZero ELSE Rat(1, Pow2(e))

NpCos(a) ==
    CASE a % 40 = 0 -> ROne
      [] a % 40 = 10 -> RZero
      [] a % 40 = 20 -> RInt(-1)
      [] a % 40 = 30 -> RZero

NpSin(a) == NpCos(a + 30)

\* (hbar**2/2.0/m)*(k0**2+0.5/sigma**2): kin is the coefficient of
\* (pi/20)^2, loc the term of the envelope
Energy(k0, sigma, m) ==
    [kin |-> Rat(hbar * hbar * k0 * k0, 2 * m),
     loc |-> Rat(hbar * hbar, 4 * m * sigma * sigma)]

\* Particle.__init__: E is computed from the argument k0, not from self.k0,
\* and None**2 raises TypeError
ParticleNew(x0, sigma, k0, m) ==
    LET selfk0 == IF IsNone(k0) THEN PiOver20 ELSE k0[1]
    IN  IF IsNone(k0) THEN [exc |-> "TypeError", obj |-> <<>>]
        ELSE [exc |-> "none",
              obj |-> <<[x0 |-> x0, m |-> m, sigma |-> sigma, k0 |-> selfk0,
                         E |-> Energy(k0[1], sigma, m)]>>]

Envelope(p, x, t) ==
    NpExpNeg(Rat((x - t - p.x0) * (x - t - p.x0), 2 * p.sigma * p.sigma))

ParticleReal(p, x, t) ==
    [k \in DOMAIN x |-> RMul(Envelope(p, x[k], t), NpCos(p.k0 * x[k]))]

ParticleImag(p, x, t) ==
    [k \in DOMAIN x |-> RMul(Envelope(p, x[k], t), NpSin(p.k0 * x[k]))]

ParticleProb(p, x, t) ==
    LET re == ParticleReal(p, x, t)
        im == ParticleImag(p, x, t)
    IN  ArrAdd(ArrMul(re, re), ArrMul(im, im))

(***************************************************************************)
(* simulation.py: Simulation.__init__ and evalPotentials.                  *)
(***************************************************************************)
\* V += pot.f(self.scale): in place, so the operand must have length N or
\* broadcast from length 1; anything else raises ValueError
RECURSIVE EvalFrom(_, _, _, _, _)
EvalFrom(potentials, i, V, warned, scale) ==
    IF i > Len(potentials) THEN Returned(V, warned)
    ELSE LET r == PotentialF(potentials[i], scale) IN
         IF r.exc # "none" THEN Raised(r.exc)
         ELSE IF Len0(r.res) # Len0(V) /\ Len0(r.res) # 1 THEN Raised("ValueError")
         ELSE EvalFrom(potentials, i + 1,
                       [k \in DOMAIN V |-> RAdd(V[k], At(r.res, k))],
                       warned \/ r.warned, scale)

EvalPotentials(potentials, N, scale) ==
    EvalFrom(potentials, 1, NpZeros(N), FALSE, scale)

SimulationNew(p, potentials, N, dx, xlims, T, dt) ==
    LET selfT == IF IsNone(T) THEN 5 * N ELSE T[1]
        startx == IF IsNone(xlims) THEN 0 ELSE xlims[1]
        endx == IF IsNone(xlims) THEN N * dx ELSE xlims[2]
        scale == NpArange(startx, endx, dx)
        ev == EvalPotentials(potentials, N, scale)
    IN  IF ev.exc # "none" THEN [exc |-> ev.exc, warned |-> FALSE, obj |-> <<>>]
        ELSE [exc |-> "none", warned |-> ev.warned,
              obj |-> <<[N |-> N, T |-> selfT, dx |-> dx, dt |-> dt,
                         scale |-> scale, potentials |-> potentials,
                         V |-> ev.res, p |-> p]>>]

(***************************************************************************)
(* Inputs.                                                                 *)
(***************************************************************************)
NSet == (MaxN - 1)..MaxN
TSet == 0..MaxT
DeltaTSet == 1..MaxDeltaT
\* packet centres: on the first grid point, inside the grid, and so far off
\* the grid that the envelope underflows to 0 on every grid point
X0Set == {0, 1, -9}
\* wavenumbers in units of pi/20: 0 and a quarter turn per unit length
K0Set == {0, 10}
ParticleSet ==
    {ParticleNew(x0, 1, Some(k0), 1).obj[1] : x0 \in X0Set, k0 \in K0Set}

NoCall == [op |-> "none"]

(***************************************************************************)
(* SpecLib: one call into the library from a fresh interpreter.            *)
(***************************************************************************)
InitLib ==
    /\ particle = <<>>
    /\ sim = <<>>
    /\ gen = <<>>
    /\ prev = <<>>
    /\ snaps = <<>>
    /\ call = NoCall

NewParticle(x0, sigma, k0, m) ==
    /\ call = NoCall
    /\ LET r == ParticleNew(x0, sigma, k0, m) IN
         /\ particle' = r.obj
         /\ call' = [op |-> "Particle", k0 |-> k0, sigma |-> sigma, m |-> m,
                     exc |-> r.exc]
    /\ UNCHANGED <<sim, gen, prev, snaps>>

NewSimulation(p, potentials, N, dx, xlims, T, dt) ==
    /\ call = NoCall
    /\ LET r == SimulationNew(p, potentials, N, dx, xlims, T, dt) IN
         /\ sim' = r.obj
         /\ call' = [op |-> "Simulation", N |-> N, xlims |-> xlims,
                     exc |-> r.exc, warned |-> r.warned]
    /\ UNCHANGED <<particle, gen, prev, snaps>>

EvalPoint(A, pos, tolerance, x) ==
    /\ call = NoCall
    /\ LET pot == PointPotential(A, pos, tolerance)
           r == PotentialF(pot, x)
       IN  call' = [op |-> "PointPotential.f", pot |-> pot, x |-> x,
                    exc |-> r.exc, res |-> r.res, warned |-> r.warned]
    /\ UNCHANGED <<particle, sim, gen, prev, snaps>>

PosSet == {-3, -2, 0, 1, 2, 3}
ToleranceSet == {None, Some(RInt(0)), Some(RInt(1))}
LibPotentials ==
    {NullPotential, StepPotential(1, Some(1)), BarrierPotential(1, 1, Some(2))}
      \cup {PointPotential(2, Some(pos), None) : pos \in {-2, 0, 3}}
LibPotentialLists ==
    {<<>>} \cup {<<a>> : a \in LibPotentials}
      \cup {<<a, b>> : a \in LibPotentials, b \in {NullPotential}}
XlimsSet == {None, <<-3, 0>>, <<-3, 1>>, <<0, 1>>, <<0, 2>>, <<-4, 4>>}
GridSet == {NpArange(a, b, dx) : a \in {-4, -3, 0}, b \in {1, 4}, dx \in 1..2}

NextLib ==
    \/ \E x0 \in X0Set, sigma \in 1..2, k0 \in {None, Some(0), Some(10)},
          m \in 1..2 : NewParticle(x0, sigma, k0, m)
    \/ \E p \in ParticleSet, potentials \in LibPotentialLists, N \in NSet,
          dx \in 1..2, xlims \in XlimsSet, T \in {None, Some(MaxT)},
          dt \in {None} : NewSimulation(p, potentials, N, dx, xlims, T, dt)
    \/ \E A \in 1..2, pos \in PosSet, tolerance \in ToleranceSet, x \in GridSet :
          EvalPoint(A, Some(pos), tolerance, x)

SpecLib == InitLib /\ [][NextLib]_vars

(***************************************************************************)
(* simulation.py: Simulation.simulate, a generator.  Its locals (psi_r,    *)
(* psi_i, psi_p, t, the coefficients) live in the generator object gen;    *)
(* pc is the generator's position: created (body not entered), running,    *)
(* suspended (at the yield) or done (StopIteration).                       *)
(***************************************************************************)
PA == 0
PR == 1
FU == 2

\* lines 57-60: the time step
Dt(s) ==
    IF IsNone(s.dt)
    THEN RDiv(RInt(hbar),
              RAdd(Rat(2 * hbar * hbar, s.p.m * s.dx * s.dx), NpMax(s.V)))
    ELSE s.dt[1]

\* psi[row] = a, the right-hand side broadcast over the row
SetRow(psi, row, a) == [psi EXCEPT ![row] = [k \in DOMAIN psi[row] |-> At(a, k)]]

\* lines 64-65, 72-75: the triple buffers, past and present seeded at t = 0
SeedBuffer(N, a) ==
    LET z == [row \in {PA, PR, FU} |-> NpZeros(N)]
    IN  SetRow(SetRow(z, PR, a), PA, a)

\* the mass summed without the grid step
MassPNoDx(dx, psi_p) == NpSum(psi_p)

\* line 79
MassP(dx, psi_p) == RMul(RInt(dx), NpSum(psi_p))

\* lines 80-83: psi_r /= nrm; psi_i /= nrm; psi_p /= P.  The arrays keep their
\* numerators and the units change: psi_r and psi_i are in units of
\* 1/sqrt(den), psi_p in units of 1/pden.  With P = 0 every element is 0/0,
\* NaN, and stays NaN through every later operation.
Normalize(P) ==
    IF P = RZero THEN [nan |-> TRUE, den |-> ROne, pden |-> ROne]
    ELSE [nan |-> FALSE, den |-> P, pden |-> P]

\* lines 86-88
C1(s) == RDiv(RMul(RInt(hbar), Dt(s)), RInt(s.p.m * s.dx * s.dx))
C2(s) == RDiv(RMul(RInt(2), Dt(s)), RInt(hbar))
C2V(s) == ArrScale(C2(s), s.V)

\* lines 92-94
IDX1(N) == NpArange(1, N - 1, 1)
IDX2(N) == NpArange(2, N, 1)
IDX3(N) == NpArange(0, N - 2, 1)

\* psi[IDX2] - 2*psi[IDX1] + psi[IDX3]
Laplacian(a, N) ==
    ArrAdd(ArrSub(Take(a, IDX2(N)), ArrScale(RInt(2), Take(a, IDX1(N)))),
           Take(a, IDX3(N)))

\* lines 100-102; rPR is the view psi_rPR of the present row of psi_r
UpdateImag(psi_i, rPR, c1, c2V, N) ==
    LET i1 == [psi_i EXCEPT ![FU] =
                 Put(psi_i[FU], IDX1(N),
                     ArrAdd(Take(psi_i[PA], IDX1(N)),
                            ArrScale(c1, Laplacian(rPR, N))))]
    IN  [i1 EXCEPT ![FU] = ArrSub(i1[FU], ArrMul(c2V, rPR))]

\* lines 104-106; iPR is the view psi_iPR of the present row of psi_i
UpdateReal(psi_r, iPR, c1, c2V, N) ==
    LET r1 == [psi_r EXCEPT ![FU] =
                 Put(psi_r[FU], IDX1(N),
                     ArrSub(Take(psi_r[PA], IDX1(N)),
                            ArrScale(c1, Laplacian(iPR, N))))]
    IN  [r1 EXCEPT ![FU] = ArrAdd(r1[FU], ArrMul(c2V, iPR))]

\* the rotation in the other order: the present row is overwritten before
\* the view of it is copied to the past row
RotateSwapped(psi) ==
    LET p1 == SetRow(psi, PR, psi[FU])
    IN  SetRow(p1, PA, p1[PR])

\* lines 109-110 (111-112): psi[PA] = psiPR, a view that still reads the
\* present row; then psi[PR] = psi[FU]
Rotate(psi) ==
    LET p1 == SetRow(psi, PA, psi[PR])
    IN  SetRow(p1, PR, p1[FU])

\* the loop one pass short: range(self.T)
LoopRangeShort(T) == 0..(T - 1)

\* line 95: for t in range(self.T+1)
LoopRange(T) == 0..T

\* sampling at the end of each block of deltaT passes
IsSampleBlockEnd(t, deltaT) == (t + 1) % deltaT = 0

\* line 114
IsSample(t, deltaT) == t % deltaT = 0

\* line 116: 'prob' is the array just built; 'real' and 'imag' are views of
\* the present rows of the generator's buffers.  at holds what the caller
\* saw when the snapshot was handed over.
Snapshot(psi_r, psi_i, t) ==
    [prob |-> ArrAdd(ArrMul(psi_r[PR], psi_r[PR]), ArrMul(psi_i[PR], psi_i[PR])),
     real |-> [base |-> "psi_r", row |-> PR],
     imag |-> [base |-> "psi_i", row |-> PR],
     at |-> [t |-> t, real |-> psi_r[PR], imag |-> psi_i[PR]]]

\* what a view held by the caller reads now
Deref(view) ==
    IF view.base = "psi_r" THEN gen[1].psi_r[view.row] ELSE gen[1].psi_i[view.row]

\* a generator that takes over the buffers and the position of the last one
NewGeneratorResumed(deltaT) ==
    IF Len(gen) = 1 /\ gen[1].inited
    THEN [gen[1] EXCEPT !.pc = "created", !.deltaT = deltaT]
    ELSE [pc |-> "created", deltaT |-> deltaT, inited |-> FALSE, t |-> 0,
          psi_r |-> <<>>, psi_i |-> <<>>, psi_p |-> <<>>,
          nan |-> FALSE, den |-> ROne, pden |-> ROne,
          c1 |-> RZero, c2V |-> <<>>, steps |-> 0, yielded |-> 0]

\* simulate(deltaT): the generator object, its body not yet entered
NewGenerator(deltaT) ==
    [pc |-> "created", deltaT |-> deltaT, inited |-> FALSE, t |-> 0,
     psi_r |-> <<>>, psi_i |-> <<>>, psi_p |-> <<>>,
     nan |-> FALSE, den |-> ROne, pden |-> ROne,
     c1 |-> RZero, c2V |-> <<>>, steps |-> 0, yielded |-> 0]

\* what a generator that is dropped had reached
Reached(g) ==
    [t |-> g.t, psi_r |-> g.psi_r, psi_i |-> g.psi_i, yielded |-> g.yielded]

\* self.steps = simulation.simulate(deltaT) (animation.py line 27); an
\* earlier generator is dropped with the snapshots taken from it, and prev
\* remembers what it had reached
Simulate(deltaT) ==
    /\ Len(sim) = 1
    /\ Len(gen) = 1 => gen[1].pc # "running"
    /\ gen' = <<NewGenerator(deltaT)>>
    /\ prev' = IF Len(gen) = 1 THEN <<Reached(gen[1])>> ELSE <<>>
    /\ snaps' = <<>>
    /\ UNCHANGED <<particle, sim, call>>

\* next(self.steps) (animation.py lines 44, 70)
NextSnapshot ==
    /\ Len(gen) = 1
    /\ gen[1].pc \in {"created", "suspended"}
    /\ gen' = <<[gen[1] EXCEPT !.pc = "running", !.steps = 0]>>
    /\ UNCHANGED <<particle, sim, prev, snaps, call>>

\* lines 53-94: the first entry into the body
GenInit ==
    /\ Len(gen) = 1
    /\ gen[1].pc = "running"
    /\ ~gen[1].inited
    /\ LET s == sim[1]
           psi_p == ParticleProb(s.p, s.scale, 0)
           nz == Normalize(MassP(s.dx, psi_p))
       IN  gen' = <<[gen[1] EXCEPT
                       !.inited = TRUE,
                       !.psi_r = SeedBuffer(s.N, ParticleReal(s.p, s.scale, 0)),
                       !.psi_i = SeedBuffer(s.N, ParticleImag(s.p, s.scale, 0)),
                       !.psi_p = psi_p,
                       !.nan = nz.nan, !.den = nz.den, !.pden = nz.pden,
                       !.c1 = C1(s), !.c2V = C2V(s)]>>
    /\ UNCHANGED <<particle, sim, prev, snaps, call>>

\* lines 96-116: one pass of the loop body, up to the yield when it samples
Step ==
    /\ Len(gen) = 1
    /\ gen[1].pc = "running"
    /\ gen[1].inited
    /\ gen[1].t \in LoopRange(sim[1].T)
    /\ LET g == gen[1]
           N == sim[1].N
           i2 == UpdateImag(g.psi_i, g.psi_r[PR], g.c1, g.c2V, N)
           r2 == UpdateReal(g.psi_r, i2[PR], g.c1, g.c2V, N)
           r4 == Rotate(r2)
           i4 == Rotate(i2)
           sample == IsSample(g.t, g.deltaT)
           sn == Snapshot(r4, i4, g.t)
       IN  /\ gen' = <<[g EXCEPT
                          !.psi_r = r4, !.psi_i = i4,
                          !.psi_p = IF sample THEN sn.prob ELSE g.psi_p,
                          !.pden = IF sample THEN g.den ELSE g.pden,
                          !.t = g.t + 1,
                          !.steps = g.steps + 1,
                          !.yielded = IF sample THEN g.yielded + 1 ELSE g.yielded,
                          !.pc = IF sample THEN "suspended" ELSE "running"]>>
           /\ snaps' = IF sample THEN Append(snaps, sn) ELSE snaps
    /\ UNCHANGED <<particle, sim, prev, call>>

\* the loop is exhausted: the generator returns, next() raises StopIteration
Stop ==
    /\ Len(gen) = 1
    /\ gen[1].pc = "running"
    /\ gen[1].inited
    /\ gen[1].t \notin LoopRange(sim[1].T)
    /\ gen' = <<[gen[1] EXCEPT !.pc = "done"]>>
    /\ UNCHANGED <<particle, sim, prev, snaps, call>>

(***************************************************************************)
(* Spec: a constructed Simulation driven through simulate and next.        *)
(***************************************************************************)
\* the potentials and time steps tried with each grid step: a wider choice
\* with dx = 2 takes the rationals of the later steps past 32 bits
SimPotentialLists(dx) ==
    IF dx = 1
    THEN {<<NullPotential>>, <<StepPotential(1, Some(0))>>,
          <<NullPotential, PointPotential(1, Some(1), None)>>}
    ELSE {<<NullPotential>>}

SimDtSet(dx) == IF dx = 1 THEN {None, Some(ROne)} ELSE {None}

SimulationSet ==
    {SimulationNew(p, potentials, N, dx, None, Some(T), dt).obj[1] :
        p \in ParticleSet,
        potentials \in SimPotentialLists(1) \cup SimPotentialLists(2),
        N \in NSet, dx \in 1..2, T \in TSet, dt \in SimDtSet(1) \cup SimDtSet(2)}

Init ==
    /\ sim \in {<<s>> : s \in {x \in SimulationSet :
                                 /\ x.potentials \in SimPotentialLists(x.dx)
                                 /\ x.dt \in SimDtSet(x.dx)}}
    /\ particle = <<sim[1].p>>
    /\ gen = <<>>
    /\ prev = <<>>
    /\ snaps = <<>>
    /\ call = NoCall

Next ==
    \/ \E deltaT \in DeltaTSet : Simulate(deltaT)
    \/ NextSnapshot
    \/ GenInit
    \/ Step
    \/ Stop

Spec == Init /\ [][Next]_vars

(***************************************************************************)
(* The claims.                                                             *)
(***************************************************************************)
Running == Len(gen) = 1 /\ gen[1].pc = "running"
Suspended == Len(gen) = 1 /\ gen[1].pc = "suspended"
Done == Len(gen) = 1 /\ gen[1].pc = "done"
Initial(kind) ==
    IF kind = "real" THEN ParticleReal(sim[1].p, sim[1].scale, 0)
    ELSE ParticleImag(sim[1].p, sim[1].scale, 0)

\* C1: a fully consumed sequence has yielded exactly floor(T/deltaT) + 1
\* snapshots, never more on the way, and the 'prob', 'real' and 'imag' arrays
\* of every snapshot have length N.
C1_SnapshotCount ==
    /\ Len(gen) = 1 => Len(snaps) <= (sim[1].T \div gen[1].deltaT) + 1
    /\ Done => Len(snaps) = (sim[1].T \div gen[1].deltaT) + 1
    /\ \A i \in 1..Len(snaps) :
          /\ Len0(snaps[i].prob) = sim[1].N
          /\ Len0(Deref(snaps[i].real)) = sim[1].N
          /\ Len0(Deref(snaps[i].imag)) = sim[1].N

C1_Witness ==
    /\ Done
    /\ gen[1].deltaT > 1
    /\ sim[1].T % gen[1].deltaT # 0
    /\ Len(snaps) >= 2

\* C2: the 'real' and 'imag' arrays of a snapshot already handed to the
\* caller still read what they read when it was yielded, whatever update
\* steps and rotations followed.
C2_SnapshotsKeepContents ==
    \A i \in 1..Len(snaps) :
        /\ Deref(snaps[i].real) = snaps[i].at.real
        /\ Deref(snaps[i].imag) = snaps[i].at.imag

\* the moment a generator made by a second simulate call, after the first
\* sequence was partly consumed, has entered its body and not yet stepped
Reentered ==
    /\ Len(prev) = 1
    /\ prev[1].yielded >= 1
    /\ Running
    /\ gen[1].inited
    /\ gen[1].steps = 0
    /\ snaps = <<>>

\* C3 as claimed: the new sequence resumes from the buffers and the step
\* position the earlier sequence had reached.
C3_Resumes ==
    Reentered =>
        /\ gen[1].t = prev[1].t
        /\ gen[1].psi_r = prev[1].psi_r
        /\ gen[1].psi_i = prev[1].psi_i

\* C3 amended: the new sequence starts at step position 0 from the seeded
\* t = 0 buffers (past = present = the particle at t = 0, future zero), not
\* from what the earlier sequence had reached.
C3_Restarts ==
    Reentered =>
        /\ gen[1].t = 0
        /\ gen[1].psi_r = SeedBuffer(sim[1].N, Initial("real"))
        /\ gen[1].psi_i = SeedBuffer(sim[1].N, Initial("imag"))
        /\ gen[1].t # prev[1].t

C3_Witness ==
    /\ Reentered
    /\ prev[1].psi_r # gen[1].psi_r
    /\ prev[1].t >= 2

\* C4: after any number of update steps the present real and imaginary
\* values at indices 0 and N-1 are the normalized t = 0 values.
C4_BoundaryFixed ==
    (Len(gen) = 1 /\ gen[1].inited /\ ~gen[1].nan) =>
        \A k \in {0, sim[1].N - 1} :
            /\ gen[1].psi_r[PR][k] = Initial("real")[k]
            /\ gen[1].psi_i[PR][k] = Initial("imag")[k]

\* C5 as claimed: every request that returns a snapshot, the first included,
\* has performed exactly deltaT update steps.
C5_DeltaTStepsEveryRequest == Suspended => gen[1].steps = gen[1].deltaT

\* C5 amended: the first request performs exactly one update step, every
\* later request that returns a snapshot exactly deltaT.
C5_StepsPerRequest ==
    Suspended =>
        gen[1].steps = IF Len(snaps) = 1 THEN 1 ELSE gen[1].deltaT

C5_Witness ==
    /\ Suspended
    /\ gen[1].deltaT >= 2
    /\ Len(snaps) >= 2

\* the moment the body has run lines 53-94 and not yet entered the loop
JustInitialised == Running /\ gen[1].inited /\ gen[1].t = 0

TotalProbability ==
    RDiv(RMul(RInt(sim[1].dx), NpSum(gen[1].psi_p)), gen[1].pden)

GridMass == RMul(RInt(sim[1].dx), NpSum(ParticleProb(sim[1].p, sim[1].scale, 0)))

C10_UpdateAndRotate ==
    [][(Running /\ gen[1].inited /\ Len(gen') = 1 /\ gen'[1].t = gen[1].t + 1) =>
        LET g == gen[1]
            h == gen'[1]
            c1 == C1(sim[1])
            c2V == C2V(sim[1])
            Lap(a, k) == RAdd(RSub(a[k + 1], RMul(RInt(2), a[k])), a[k - 1])
        IN  /\ \A k \in 1..(sim[1].N - 2) :
                  /\ h.psi_i[FU][k] =
                        RSub(RAdd(g.psi_i[PA][k], RMul(c1, Lap(g.psi_r[PR], k))),
                             RMul(c2V[k], g.psi_r[PR][k]))
                  /\ h.psi_r[FU][k] =
                        RAdd(RSub(g.psi_r[PA][k], RMul(c1, Lap(g.psi_i[PR], k))),
                             RMul(c2V[k], g.psi_i[PR][k]))
            /\ h.psi_r[PA] = g.psi_r[PR]
            /\ h.psi_i[PA] = g.psi_i[PR]
            /\ h.psi_r[PR] = h.psi_r[FU]
            /\ h.psi_i[PR] = h.psi_i[FU]]_vars

C10_Witness ==
    /\ Len(gen) = 1
    /\ gen[1].inited
    /\ gen[1].t >= 2
    /\ ~gen[1].nan
    /\ sim[1].N >= 4
    /\ gen[1].psi_r[PA] # gen[1].psi_r[PR]
    /\ gen[1].psi_i[PA] # gen[1].psi_i[PR]
    /\ \E k \in DOMAIN sim[1].V : sim[1].V[k] # RZero

\* C6: a Simulation that was constructed has a scale and a V of length N.
C6_LengthsAreN ==
    (call.op = "Simulation" /\ call.exc = "none") =>
        /\ Len0(sim[1].scale) = sim[1].N
        /\ Len0(sim[1].V) = sim[1].N

\* C8: on a grid whose range contains pos, with c the closest coordinate,
\* the result is A at the index of c and 0 elsewhere when |c - pos| is
\* within the tolerance, and all zero with a warning otherwise.
C8_PointWithinTolerance ==
    (/\ call.op = "PointPotential.f"
     /\ Len0(call.x) > 0
     /\ MinInt(call.x) <= call.pot.pos
     /\ MaxInt(call.x) >= call.pot.pos) =>
        LET x == call.x
            pot == call.pot
            d == MinInt([k \in DOMAIN x |-> Abs(x[k] - pot.pos)])
        IN  /\ call.exc = "none"
            /\ IF ~RGt(RInt(d), pot.epsilon)
               THEN \E i \in DOMAIN x :
                      /\ Abs(x[i] - pot.pos) = d
                      /\ call.res = [k \in DOMAIN x |->
                                       IF k = i THEN RInt(pot.A) ELSE RZero]
               ELSE /\ call.res = NpZeros(Len0(x))
                    /\ call.warned

\* C9: Particle(x0, sigma) with k0 left out succeeds, with k0 = pi/20 and E
\* computed from that wavenumber.
C9_DefaultWavenumber ==
    (call.op = "Particle" /\ IsNone(call.k0)) =>
        /\ call.exc = "none"
        /\ Len(particle) = 1
        /\ particle[1].k0 = PiOver20
        /\ particle[1].E = Energy(PiOver20, call.sigma, call.m)

====
